---------------------------- MODULE Spec2Model ----------------------------
(***************************************************************************)
(* A model of ZeroTier's Identity (node/Identity.cpp): generation under    *)
(* proof of work, local validation, signing, key agreement and the binary  *)
(* and text codecs.                                                        *)
(*                                                                         *)
(* Byte blocks are sequences of 0..255 at the sizes of the source.         *)
(* Integers wider than 31 bits (the 40-bit address, 64-bit words) are      *)
(* kept as big- or little-endian byte sequences so that no width is lost.  *)
(* The cryptographic primitives and the Utils codecs live outside          *)
(* Identity.cpp; they are modelled as small deterministic functions with   *)
(* the algebra the callers rely on (a hash is a function of its input, a   *)
(* Diffie-Hellman agreement commutes, hex and base32 are positional).      *)
(* The heap is not modelled: new[] and malloc succeed.                     *)
(***************************************************************************)
EXTENDS Integers, Sequences, FiniteSets, Bags, TLC

VARIABLES id, gen, last, calls

vars == <<id, gen, last, calls>>

---------------------------------------------------------------------------
(* Sizes and tags of the headers Identity.cpp includes.                    *)

ZT_ADDRESS_LENGTH == 5
ZT_ADDRESS_RESERVED_PREFIX == 255
ZT_C25519_COMBINED_PUBLIC_KEY_SIZE == 64
ZT_C25519_COMBINED_PRIVATE_KEY_SIZE == 64
ZT_C25519_ECDH_SHARED_SECRET_SIZE == 32
ZT_C25519_SIGNATURE_LEN == 96
ZT_ECC384_PUBLIC_KEY_SIZE == 49
ZT_ECC384_PRIVATE_KEY_SIZE == 48
ZT_ECC384_SHARED_SECRET_SIZE == 48
ZT_ECC384_SIGNATURE_SIZE == 96
ZT_IDENTITY_P384_COMPOUND_PUBLIC_KEY_SIZE == 114
ZT_IDENTITY_P384_COMPOUND_PRIVATE_KEY_SIZE == 112
ZT_IDENTITY_HASH_SIZE == 48
ZT_PEER_SECRET_KEY_LENGTH == 48
ZT_IDENTITY_STRING_BUFFER_LENGTH == 1024

\* enum Identity::Type
C25519 == 0
P384 == 1

---------------------------------------------------------------------------
(* Bytes and byte blocks.                                                  *)

Byte == 0..255

Zeroes(n) == [i \in 1..n |-> 0]

\* Position-weighted sum of a block (the Bags cardinality adds the counts).
WSum(s) == BagCardinality([i \in DOMAIN s |-> s[i] * i + 1]) - Len(s)

\* The stand-in for a cryptographic digest of n bytes: every byte and the
\* length of the input reach every byte of the output.
Digest(data, n, salt) ==
    LET v == (WSum(data) * 31 + Len(data) * 7 + salt) % 65521
    IN  [i \in 1..n |->
            ((v + 17 * i) * (2 * i + salt) + (v \div (i + 3))
                + ((v * (i + 7)) \div 256)) % 256]

SHA384(data) == Digest(data, 48, 3)

SHA512(data) == Digest(data, 64, 5)

---------------------------------------------------------------------------
(* Address (node/Address.hpp): 40 bits, kept as 5 bytes, MSB first.        *)

AddressZero == Zeroes(ZT_ADDRESS_LENGTH)

\* Address::setTo(bits) and Address(const uint8_t *): the first 5 bytes.
AddressOf(bytes) == SubSeq(bytes, 1, ZT_ADDRESS_LENGTH)

\* Address::isReserved(): zero, or the leading byte is the reserved prefix.
isReserved(a) == (a = AddressZero) \/ (a[1] = ZT_ADDRESS_RESERVED_PREFIX)


---------------------------------------------------------------------------
(* Little-endian 64-bit words (8 bytes, least significant first).          *)

\* a + b modulo 2^64, byte by byte with the carry; the last carry is lost.
RECURSIVE Add64(_, _, _, _)
Add64(a, b, i, carry) ==
    IF i > 8 THEN << >>
    ELSE LET t == a[i] + b[i] + carry
         IN  <<t % 256>> \o Add64(a, b, i + 1, t \div 256)

\* w % m for a little-endian word, from its most significant byte down.
RECURSIVE Mod64(_, _, _)
Mod64(w, m, i) ==
    IF i = 0 THEN 0 ELSE (Mod64(w, m, i - 1) * 256 + w[Len(w) + 1 - i]) % m

---------------------------------------------------------------------------
(* Key pairs (node/C25519.hpp, node/ECC384.hpp).  A key pair is drawn from *)
(* one output of the random number generator; the public half is a         *)
(* function of the private half, and agreement is exponentiation in a      *)
(* small prime field, so that it commutes exactly for matching halves.     *)

DHPrime == 251
DHBase == 6

RECURSIVE ModExp(_, _, _)
ModExp(b, e, m) ==
    IF e = 0 THEN 1
    ELSE LET h == ModExp(b, e \div 2, m)
         IN  IF e % 2 = 0 THEN (h * h) % m ELSE (((h * h) % m) * b) % m

\* Utils::getSecureRandom: n bytes from one draw of the generator.
RandomBytes(seed, n) ==
    [i \in 1..n |-> ((seed + i) * ((seed % 251) + 2 * i + 1) + (seed \div 7)) % 256]

DHScalar(b) == (b % (DHPrime - 1)) + 1

\* The public half of a C25519 private key: the Ed25519 verify key of
\* bytes 1..32, then the X25519 point of bytes 33..64.
C25519PublicOf(priv) ==
    LET point == ModExp(DHBase, DHScalar(priv[33]), DHPrime)
    IN  [i \in 1..ZT_C25519_COMBINED_PUBLIC_KEY_SIZE |->
            IF i <= 32 THEN (priv[i] * 5 + 9 * i) % 256
            ELSE IF i = 33 THEN point
            ELSE (point * i + 3) % 256]

\* C25519::generate(pub, priv)
C25519Generate(seed) ==
    LET priv == RandomBytes(seed, ZT_C25519_COMBINED_PRIVATE_KEY_SIZE)
    IN  [pub |-> C25519PublicOf(priv), priv |-> priv]

\* C25519::agree(mine, their, rawkey): the X25519 shared secret.
C25519Agree(mine, their) ==
    LET s == ModExp(their[33], DHScalar(mine[33]), DHPrime)
    IN  [i \in 1..ZT_C25519_ECDH_SHARED_SECRET_SIZE |-> (s * i + 7 * i) % 256]

\* C25519::sign(priv, pub, data, len, sig): 96 bytes.
C25519Sign(priv, pub, data) ==
    Digest(SubSeq(priv, 1, 32) \o pub \o data, ZT_C25519_SIGNATURE_LEN, 7)

ECC384PublicOf(priv) ==
    LET point == ModExp(DHBase, DHScalar(priv[1]), DHPrime)
    IN  [i \in 1..ZT_ECC384_PUBLIC_KEY_SIZE |->
            IF i = 1 THEN 2 + (priv[48] % 2)
            ELSE IF i = 2 THEN point
            ELSE (point * i + 11) % 256]

\* ECC384GenerateKey(pub, priv)
ECC384GenerateKey(seed) ==
    LET priv == RandomBytes(seed + 1000, ZT_ECC384_PRIVATE_KEY_SIZE)
    IN  [pub |-> ECC384PublicOf(priv), priv |-> priv]

\* ECC384ECDH(theirPub, ourPriv, secret)
ECC384ECDH(their, mine) ==
    LET s == ModExp(their[2], DHScalar(mine[1]), DHPrime)
    IN  [i \in 1..ZT_ECC384_SHARED_SECRET_SIZE |-> (s * i + 13 * i + 1) % 256]

\* ECC384ECDSASign(priv, hash, sig): 96 bytes.
ECC384ECDSASign(priv, h) == Digest(priv \o h, ZT_ECC384_SIGNATURE_SIZE, 11)

---------------------------------------------------------------------------
(* The proof-of-work functions.                                            *)

\* The 2 MiB Salsa20 chain and the 131072 swap-and-encrypt rounds are a
\* function of the initial SHA-512 digest alone (it keys the cipher and is
\* the only input); the model keeps that function and not the memory.
identityV0ProofOfWorkFrankenhash(publicKey) ==
    LET digest == SHA512(publicKey)
    IN  Digest(digest, 64, 13)

identityV0ProofOfWorkCriteria(pub) ==
    identityV0ProofOfWorkFrankenhash(pub)[1] < 17

\* b[0..7] = SHA512(in) keys Speck and seeds the chain, so the sorted
\* array is a function of it.  The final hash covers sizeof(b) bytes of
\* the array, and b is a pointer: the 8 bytes of the least word, then in.
identityV1ProofOfWorkCriteria(in) ==
    LET b == SHA512(in)
        least == Digest(b, 8, 17)
        final == SHA384(least \o in)
        finalHash == Add64(SubSeq(final, 1, 8), SubSeq(final, 9, 16), 1, 0)
    IN  Mod64(finalHash, 180, 8) = 0


---------------------------------------------------------------------------
(* The Identity object (node/Identity.hpp): _type, _hasPrivate, _address,  *)
(* _pub {nonce, c25519, p384}, _priv {c25519, p384} and the fingerprint    *)
(* _fp {address, hash}.                                                    *)

\* &_pub, sizeof(_pub): the packed image nonce | c25519 | p384.
CompoundPublic(pub) == <<pub.nonce>> \o pub.c25519 \o pub.p384

\* &_priv, sizeof(_priv): c25519 | p384.
CompoundPrivate(priv) == priv.c25519 \o priv.p384

\* Fingerprint::zero()
FingerprintZero ==
    [address |-> AddressZero, hash |-> Zeroes(ZT_IDENTITY_HASH_SIZE)]

\* Identity::NIL and a default-constructed Identity: all zero.
NIL ==
    [type |-> C25519,
     hasPrivate |-> FALSE,
     address |-> AddressZero,
     pub |-> [nonce |-> 0,
              c25519 |-> Zeroes(ZT_C25519_COMBINED_PUBLIC_KEY_SIZE),
              p384 |-> Zeroes(ZT_ECC384_PUBLIC_KEY_SIZE)],
     priv |-> [c25519 |-> Zeroes(ZT_C25519_COMBINED_PRIVATE_KEY_SIZE),
               p384 |-> Zeroes(ZT_ECC384_PRIVATE_KEY_SIZE)],
     fp |-> FingerprintZero]

\* Identity::_computeHash(): the fingerprint takes the address the object
\* holds at the time of the call.
computeHash(o) ==
    CASE o.type = C25519 ->
            [o EXCEPT !.fp = [address |-> o.address,
                              hash |-> SHA384(o.pub.c25519)]]
      [] o.type = P384 ->
            [o EXCEPT !.fp = [address |-> o.address,
                              hash |-> SHA384(CompoundPublic(o.pub))]]
      [] OTHER -> [o EXCEPT !.fp = FingerprintZero]

---------------------------------------------------------------------------
(* The random number generator.  A call of generate consumes a sequence of *)
(* draws, one per key pair it makes; the model offers every sequence of at *)
(* most MaxDraws draws over Seeds and keeps those the call consumes whole. *)

Seeds == {139, 52, 6081}

MaxDraws == 4

DrawSeqs == UNION {[1..n -> Seeds] : n \in 0..MaxDraws}

\* Tabulations over the draws (the operators are applied to the same bytes).
KeyPairC25519 == [s \in Seeds |-> C25519Generate(s)]

KeyPairP384 == [s \in Seeds |-> ECC384GenerateKey(s)]

FrankenhashOfDraw ==
    [s \in Seeds |-> identityV0ProofOfWorkFrankenhash(KeyPairC25519[s].pub)]

\* The inner for(;;) of generate(P384) with the key pairs fixed: the first
\* nonce from n on that passes, or 256 when ++_pub.nonce wraps to 0.
firstPassingNonce(c25519, p384, n) ==
    LET passing == {m \in n..255 : identityV1ProofOfWorkCriteria(<<m>> \o c25519 \o p384)}
    IN  IF passing = {} THEN 256
        ELSE CHOOSE m \in passing : \A x \in passing : m <= x

FirstPassingNonceOfDraws ==
    [k \in Seeds, p \in Seeds |->
        firstPassingNonce(KeyPairC25519[k].pub, KeyPairP384[p].pub, 0)]

\* generate(C25519) without the do-while on a reserved address.
RECURSIVE generateC25519KeepsReserved(_, _, _)
generateC25519KeepsReserved(o, draws, n) ==
    IF n >= Len(draws) THEN [done |-> FALSE, ok |-> FALSE, obj |-> o, used |-> n]
    ELSE LET kp == KeyPairC25519[draws[n + 1]]
             digest == FrankenhashOfDraw[draws[n + 1]]
             o1 == [o EXCEPT !.pub.c25519 = kp.pub, !.priv.c25519 = kp.priv]
         IN  IF ~(digest[1] < 17) THEN generateC25519KeepsReserved(o1, draws, n + 1)
             ELSE [done |-> TRUE, ok |-> TRUE,
                   obj |-> computeHash([o1 EXCEPT !.address = SubSeq(digest, 60, 64)]),
                   used |-> n + 1]

\* case C25519 of generate: C25519::generateSatisfying draws key pairs until
\* the criteria holds; the do-while repeats it while the address is reserved.
\* n is the number of draws consumed.
RECURSIVE generateC25519(_, _, _)
generateC25519(o, draws, n) ==
    IF n >= Len(draws) THEN [done |-> FALSE, ok |-> FALSE, obj |-> o, used |-> n]
    ELSE LET kp == KeyPairC25519[draws[n + 1]]
             digest == FrankenhashOfDraw[draws[n + 1]]
             o1 == [o EXCEPT !.pub.c25519 = kp.pub, !.priv.c25519 = kp.priv]
         IN  IF ~(digest[1] < 17) THEN generateC25519(o1, draws, n + 1)
             ELSE LET o2 == [o1 EXCEPT !.address = SubSeq(digest, 60, 64)]
                  IN  IF isReserved(o2.address)
                      THEN generateC25519(o2, draws, n + 1)
                      ELSE [done |-> TRUE, ok |-> TRUE,
                            obj |-> computeHash(o2), used |-> n + 1]

\* The inner loop of case P384 with the C25519 draw k and the P-384 draw p:
\* on a pass it returns to the outer loop's tail; on a wrap it draws a new
\* P-384 key pair and goes on.
RECURSIVE generateP384(_, _, _)
RECURSIVE generateP384Inner(_, _, _, _, _)
generateP384Inner(o, draws, n, k, p) ==
    LET nonce == FirstPassingNonceOfDraws[k, p]
    IN  IF nonce = 256
        THEN IF n >= Len(draws)
             THEN [done |-> FALSE, ok |-> FALSE, obj |-> o, used |-> n]
             ELSE LET kp == KeyPairP384[draws[n + 1]]
                      o1 == [o EXCEPT !.pub.nonce = 0, !.pub.p384 = kp.pub,
                                      !.priv.p384 = kp.priv]
                  IN  generateP384Inner(o1, draws, n + 1, k, draws[n + 1])
        ELSE LET o1 == computeHash([o EXCEPT !.pub.nonce = nonce])
                 o2 == [o1 EXCEPT !.address = AddressOf(o1.fp.hash)]
             IN  IF ~isReserved(o2.address)
                 THEN [done |-> TRUE, ok |-> TRUE, obj |-> o2, used |-> n]
                 ELSE generateP384(o2, draws, n)

\* case P384 of generate: the outer for(;;).
generateP384(o, draws, n) ==
    IF n + 2 > Len(draws) THEN [done |-> FALSE, ok |-> FALSE, obj |-> o, used |-> n]
    ELSE LET kc == KeyPairC25519[draws[n + 1]]
             kp == KeyPairP384[draws[n + 2]]
             o1 == [o EXCEPT !.pub = [nonce |-> 0, c25519 |-> kc.pub, p384 |-> kp.pub],
                             !.priv = [c25519 |-> kc.priv, p384 |-> kp.priv]]
         IN  generateP384Inner(o1, draws, n + 2, draws[n + 1], draws[n + 2])

\* Identity::generate(t): the object after the call, the value returned
\* (ok), whether the loops ended within the draws (done) and the draws used.
generate(o, t, draws) ==
    LET o0 == [o EXCEPT !.type = t, !.hasPrivate = TRUE]
    IN  CASE t = C25519 -> generateC25519(o0, draws, 0)
          [] t = P384 -> generateP384(o0, draws, 0)
          [] OTHER -> [done |-> TRUE, ok |-> FALSE, obj |-> o0, used |-> 0]

\* generate(P384) when malloc gives a null pointer: return false, _type and
\* _hasPrivate written.
generateNoMemory(o) ==
    [done |-> TRUE, ok |-> FALSE,
     obj |-> [o EXCEPT !.type = P384, !.hasPrivate = TRUE], used |-> 0]

\* The sequences of draws a call of generate(t) consumes whole.
DrawsOf(t) ==
    {d \in DrawSeqs : LET r == generate(NIL, t, d) IN r.done /\ r.used = Len(d)}

DrawsC25519 == DrawsOf(C25519)

DrawsP384 == DrawsOf(P384)

\* Identity::locallyValidate()
locallyValidate(o) ==
    IF (~isReserved(o.address)) /\ (o.address # AddressZero)
    THEN CASE o.type = C25519 ->
                LET digest == identityV0ProofOfWorkFrankenhash(o.pub.c25519)
                IN  (o.address = SubSeq(digest, 60, 64)) /\ (digest[1] < 17)
           [] o.type = P384 ->
                IF o.address # AddressOf(o.fp.hash) THEN FALSE
                ELSE identityV1ProofOfWorkCriteria(CompoundPublic(o.pub))
           [] OTHER -> FALSE
    ELSE FALSE


---------------------------------------------------------------------------
(* The binary form: address[5] | type[1] | public | priv_len[1] | private  *)

\* Identity::marshal(data, includePrivate): the value returned and the
\* bytes written to data.
marshal(o, includePrivate) ==
    CASE o.type = C25519 ->
            IF includePrivate /\ o.hasPrivate
            THEN [ret |-> ZT_ADDRESS_LENGTH + 1 + ZT_C25519_COMBINED_PUBLIC_KEY_SIZE
                            + 1 + ZT_C25519_COMBINED_PRIVATE_KEY_SIZE,
                  data |-> o.address \o <<C25519>> \o o.pub.c25519
                            \o <<ZT_C25519_COMBINED_PRIVATE_KEY_SIZE>>
                            \o o.priv.c25519]
            ELSE [ret |-> ZT_ADDRESS_LENGTH + 1 + ZT_C25519_COMBINED_PUBLIC_KEY_SIZE + 1,
                  data |-> o.address \o <<C25519>> \o o.pub.c25519 \o <<0>>]
      [] o.type = P384 ->
            IF includePrivate /\ o.hasPrivate
            THEN [ret |-> ZT_ADDRESS_LENGTH + 1 + ZT_IDENTITY_P384_COMPOUND_PUBLIC_KEY_SIZE
                            + 1 + ZT_IDENTITY_P384_COMPOUND_PRIVATE_KEY_SIZE,
                  data |-> o.address \o <<P384>> \o CompoundPublic(o.pub)
                            \o <<ZT_IDENTITY_P384_COMPOUND_PRIVATE_KEY_SIZE>>
                            \o CompoundPrivate(o.priv)]
            ELSE [ret |-> ZT_ADDRESS_LENGTH + 1 + ZT_IDENTITY_P384_COMPOUND_PUBLIC_KEY_SIZE + 1,
                  data |-> o.address \o <<P384>> \o CompoundPublic(o.pub) \o <<0>>]
      [] OTHER -> [ret |-> -1, data |-> o.address]

\* case C25519 of unmarshal; o holds the address and the type already.
unmarshalC25519(o, data, len) ==
    LET pubAt == ZT_ADDRESS_LENGTH + 1
        privlenAt == pubAt + ZT_C25519_COMBINED_PUBLIC_KEY_SIZE + 1
    IN  IF len < ZT_ADDRESS_LENGTH + 1 + ZT_C25519_COMBINED_PUBLIC_KEY_SIZE + 1
        THEN [ret |-> -1, obj |-> o]
        ELSE LET o1 == computeHash([o EXCEPT !.pub.c25519 =
                            SubSeq(data, pubAt + 1, pubAt + ZT_C25519_COMBINED_PUBLIC_KEY_SIZE)])
                 privlen == data[privlenAt]
             IN  IF privlen = ZT_C25519_COMBINED_PRIVATE_KEY_SIZE
                 THEN IF len < ZT_ADDRESS_LENGTH + 1 + ZT_C25519_COMBINED_PUBLIC_KEY_SIZE
                                + 1 + ZT_C25519_COMBINED_PRIVATE_KEY_SIZE
                      THEN [ret |-> -1, obj |-> o1]
                      ELSE [ret |-> ZT_ADDRESS_LENGTH + 1 + ZT_C25519_COMBINED_PUBLIC_KEY_SIZE
                                      + 1 + ZT_C25519_COMBINED_PRIVATE_KEY_SIZE,
                            obj |-> [o1 EXCEPT !.hasPrivate = TRUE,
                                        !.priv.c25519 = SubSeq(data, privlenAt + 1,
                                            privlenAt + ZT_C25519_COMBINED_PRIVATE_KEY_SIZE)]]
                 ELSE IF privlen = 0
                 THEN [ret |-> ZT_ADDRESS_LENGTH + 1 + ZT_C25519_COMBINED_PUBLIC_KEY_SIZE + 1,
                       obj |-> [o1 EXCEPT !.hasPrivate = FALSE]]
                 ELSE [ret |-> -1, obj |-> o1]

\* case P384 of unmarshal.
unmarshalP384(o, data, len) ==
    LET pubAt == ZT_ADDRESS_LENGTH + 1
        privlenAt == pubAt + ZT_IDENTITY_P384_COMPOUND_PUBLIC_KEY_SIZE + 1
    IN  IF len < ZT_ADDRESS_LENGTH + 1 + ZT_IDENTITY_P384_COMPOUND_PUBLIC_KEY_SIZE + 1
        THEN [ret |-> -1, obj |-> o]
        ELSE LET o1 == computeHash([o EXCEPT !.pub =
                            [nonce |-> data[pubAt + 1],
                             c25519 |-> SubSeq(data, pubAt + 2,
                                            pubAt + 1 + ZT_C25519_COMBINED_PUBLIC_KEY_SIZE),
                             p384 |-> SubSeq(data, pubAt + 2 + ZT_C25519_COMBINED_PUBLIC_KEY_SIZE,
                                            pubAt + ZT_IDENTITY_P384_COMPOUND_PUBLIC_KEY_SIZE)]])
                 privlen == data[privlenAt]
             IN  IF o1.address # AddressOf(o1.fp.hash)
                 THEN [ret |-> -1, obj |-> o1]
                 ELSE IF privlen = ZT_IDENTITY_P384_COMPOUND_PRIVATE_KEY_SIZE
                 THEN IF len < ZT_ADDRESS_LENGTH + 1 + ZT_IDENTITY_P384_COMPOUND_PUBLIC_KEY_SIZE
                                + 1 + ZT_IDENTITY_P384_COMPOUND_PRIVATE_KEY_SIZE
                      THEN [ret |-> -1, obj |-> o1]
                      ELSE [ret |-> ZT_ADDRESS_LENGTH + 1 + ZT_IDENTITY_P384_COMPOUND_PUBLIC_KEY_SIZE
                                      + 1 + ZT_IDENTITY_P384_COMPOUND_PRIVATE_KEY_SIZE,
                            obj |-> [o1 EXCEPT !.hasPrivate = TRUE,
                                        !.priv = [c25519 |-> SubSeq(data, privlenAt + 1,
                                                      privlenAt + ZT_C25519_COMBINED_PRIVATE_KEY_SIZE),
                                                  p384 |-> SubSeq(data,
                                                      privlenAt + 1 + ZT_C25519_COMBINED_PRIVATE_KEY_SIZE,
                                                      privlenAt + ZT_IDENTITY_P384_COMPOUND_PRIVATE_KEY_SIZE)]]]
                 ELSE IF privlen = 0
                 THEN [ret |-> ZT_ADDRESS_LENGTH + 1 + ZT_IDENTITY_P384_COMPOUND_PUBLIC_KEY_SIZE + 1,
                       obj |-> [o1 EXCEPT !.hasPrivate = FALSE]]
                 ELSE [ret |-> -1, obj |-> o1]

\* Identity::unmarshal(data, len): the value returned and the object after.
unmarshal(o, data, len) ==
    LET o0 == [o EXCEPT !.fp = FingerprintZero, !.hasPrivate = FALSE]
    IN  IF len < 1 + ZT_ADDRESS_LENGTH
        THEN [ret |-> -1, obj |-> o0]
        ELSE LET o1 == [o0 EXCEPT !.address = AddressOf(data),
                                  !.type = data[ZT_ADDRESS_LENGTH + 1]]
             IN  CASE o1.type = C25519 -> unmarshalC25519(o1, data, len)
                   [] o1.type = P384 -> unmarshalP384(o1, data, len)
                   [] OTHER -> [ret |-> -1, obj |-> o1]


---------------------------------------------------------------------------
(* Strings are sequences of character codes; the codecs of node/Utils.     *)

Colon == 58

\* A null const char *: no string holds the code 0.
NullPtr == <<0>>

Least(S) == CHOOSE x \in S : \A y \in S : x <= y

Smaller(a, b) == IF a < b THEN a ELSE b

HexChar(v) == IF v < 10 THEN 48 + v ELSE 87 + v

\* The value of a hex digit, -1 for any other character.
HexValue(c) ==
    IF c \in 48..57 THEN c - 48
    ELSE IF c \in 97..102 THEN c - 87
    ELSE IF c \in 65..70 THEN c - 55
    ELSE -1

\* Utils::hex(d, l, s) and Address::toString: two lowercase digits a byte.
hex(d) ==
    [i \in 1..(2 * Len(d)) |->
        HexChar(IF i % 2 = 1 THEN d[(i + 1) \div 2] \div 16 ELSE d[i \div 2] % 16)]

\* Utils::unhex(h, hlen, buf, buflen): whole pairs of digits, buflen bytes
\* at most; its value is the number of bytes, the length of the result.
unhex(h, buflen) ==
    LET nib(c) == IF HexValue(c) < 0 THEN 0 ELSE HexValue(c)
    IN  [i \in 1..Smaller(buflen, Len(h) \div 2) |->
            16 * nib(h[2 * i - 1]) + nib(h[2 * i])]

\* Utils::hexStrToU64(s): the leading hex digits, 16 at most, as a 64-bit
\* number (8 bytes, MSB first).
hexStrToU64(s) ==
    LET bad == {i \in 1..Len(s) : HexValue(s[i]) < 0}
        n == Smaller(16, IF bad = {} THEN Len(s) ELSE Least(bad) - 1)
        nib == [i \in 1..16 |-> IF i <= 16 - n THEN 0 ELSE HexValue(s[i - (16 - n)])]
    IN  [i \in 1..8 |-> 16 * nib[2 * i - 1] + nib[2 * i]]

\* Address(uint64_t): the low 40 bits.
AddressOfU64(w) == SubSeq(w, 4, 8)

B32Char(v) == IF v < 26 THEN 97 + v ELSE 50 + (v - 26)

\* The value of a base32 character (either case; 0, 1 and 8 read as O, L
\* and B), -1 for any other character.
B32Value(c) ==
    IF c \in 97..122 THEN c - 97
    ELSE IF c \in 65..90 THEN c - 65
    ELSE IF c \in 50..55 THEN c - 50 + 26
    ELSE IF c = 48 THEN 14
    ELSE IF c = 49 THEN 11
    ELSE IF c = 56 THEN 1
    ELSE -1

\* Utils::b32e(data, length, result, bufSize): 5 bits a character, the
\* last one padded with zero bits.
b32e(d) ==
    [i \in 1..((8 * Len(d) + 4) \div 5) |->
        LET a == ((5 * (i - 1)) \div 8) + 1
            off == (5 * (i - 1)) % 8
            w == d[a] * 256 + (IF a + 1 <= Len(d) THEN d[a + 1] ELSE 0)
        IN  B32Char((w \div (2 ^ (11 - off))) % 32)]

\* Utils::b32d(encoded, result, bufSize): n is the value returned (-1 on a
\* character outside the alphabet), bytes what was written.
b32d(e, bufSize) ==
    LET read == Smaller(Len(e), (8 * bufSize + 4) \div 5)
        val(c) == IF c <= Len(e) THEN B32Value(e[c]) ELSE 0
        n == Smaller(bufSize, (5 * Len(e)) \div 8)
    IN  IF \E c \in 1..read : B32Value(e[c]) < 0
        THEN [n |-> -1, bytes |-> << >>]
        ELSE [n |-> n,
              bytes |-> [k \in 1..n |->
                  LET c == ((8 * (k - 1)) \div 5) + 1
                      off == (8 * (k - 1)) % 5
                      w == val(c) * 1024 + val(c + 1) * 32 + val(c + 2)
                  IN  (w \div (2 ^ (7 - off))) % 256]]

\* Utils::stok(str, ":", &saveptr) called until it returns null: the
\* maximal runs of characters other than the delimiter, in order.
stok(s) ==
    LET starts == {i \in 1..Len(s) : s[i] # Colon /\ (i = 1 \/ s[i - 1] = Colon)}
        EndOf(i) == Least({j \in i..Len(s) : j = Len(s) \/ s[j + 1] = Colon})
        Rank(i) == Cardinality({j \in starts : j <= i})
    IN  [k \in 1..Cardinality(starts) |->
            LET i == CHOOSE i \in starts : Rank(i) = k
            IN  SubSeq(s, i, EndOf(i))]

---------------------------------------------------------------------------
(* The text form: address:type:public[:private]                            *)

\* Identity::toString(includePrivate, buf): the string, or NullPtr.
toString(o, includePrivate) ==
    CASE o.type = C25519 ->
            hex(o.address) \o <<Colon, 48, Colon>> \o hex(o.pub.c25519)
                \o (IF o.hasPrivate /\ includePrivate
                    THEN <<Colon>> \o hex(o.priv.c25519) ELSE << >>)
      [] o.type = P384 ->
            hex(o.address) \o <<Colon, 49, Colon>> \o b32e(CompoundPublic(o.pub))
                \o (IF o.hasPrivate /\ includePrivate
                    THEN <<Colon>> \o b32e(CompoundPrivate(o.priv)) ELSE << >>)
      [] OTHER -> NullPtr

\* A failing return of fromString: every one zeroes the address first.
fromStringFail(o) == [ret |-> FALSE, obj |-> [o EXCEPT !.address = AddressZero]]

\* The for loop of fromString over the fields, fno fields done: failed when
\* a case returned false, else the object and the count of fields read.
RECURSIVE fromStringFields(_, _, _)
fromStringFields(o, f, fno) ==
    IF fno >= Len(f) \/ fno >= 4 THEN [failed |-> FALSE, obj |-> o, fno |-> fno]
    ELSE CASE fno = 0 ->
                LET o1 == [o EXCEPT !.address = AddressOfU64(hexStrToU64(f[1]))]
                IN  IF isReserved(o1.address)
                    THEN [failed |-> TRUE, obj |-> o1, fno |-> 1]
                    ELSE fromStringFields(o1, f, 1)
           [] fno = 1 ->
                IF f[2] = <<48>>
                THEN fromStringFields([o EXCEPT !.type = C25519], f, 2)
                ELSE IF f[2] = <<49>>
                THEN fromStringFields([o EXCEPT !.type = P384], f, 2)
                ELSE [failed |-> TRUE, obj |-> o, fno |-> 2]
           [] fno = 2 ->
                CASE o.type = C25519 ->
                        LET d == unhex(f[3], ZT_C25519_COMBINED_PUBLIC_KEY_SIZE)
                            o1 == [o EXCEPT !.pub.c25519 =
                                      d \o SubSeq(@, Len(d) + 1, ZT_C25519_COMBINED_PUBLIC_KEY_SIZE)]
                        IN  IF Len(d) # ZT_C25519_COMBINED_PUBLIC_KEY_SIZE
                            THEN [failed |-> TRUE, obj |-> o1, fno |-> 3]
                            ELSE fromStringFields(o1, f, 3)
                  [] o.type = P384 ->
                        LET d == b32d(f[3], ZT_IDENTITY_P384_COMPOUND_PUBLIC_KEY_SIZE)
                            img == d.bytes \o SubSeq(CompoundPublic(o.pub), Len(d.bytes) + 1,
                                                     ZT_IDENTITY_P384_COMPOUND_PUBLIC_KEY_SIZE)
                            o1 == [o EXCEPT !.pub =
                                      [nonce |-> img[1],
                                       c25519 |-> SubSeq(img, 2, 1 + ZT_C25519_COMBINED_PUBLIC_KEY_SIZE),
                                       p384 |-> SubSeq(img, 2 + ZT_C25519_COMBINED_PUBLIC_KEY_SIZE,
                                                       ZT_IDENTITY_P384_COMPOUND_PUBLIC_KEY_SIZE)]]
                        IN  IF d.n # ZT_IDENTITY_P384_COMPOUND_PUBLIC_KEY_SIZE
                            THEN [failed |-> TRUE, obj |-> o1, fno |-> 3]
                            ELSE fromStringFields(o1, f, 3)
                  [] OTHER -> fromStringFields(o, f, 3)
           [] fno = 3 ->
                IF Len(f[4]) > 1
                THEN CASE o.type = C25519 ->
                            LET d == unhex(f[4], ZT_C25519_COMBINED_PRIVATE_KEY_SIZE)
                                o1 == [o EXCEPT !.priv.c25519 =
                                          d \o SubSeq(@, Len(d) + 1, ZT_C25519_COMBINED_PRIVATE_KEY_SIZE)]
                            IN  IF Len(d) # ZT_C25519_COMBINED_PRIVATE_KEY_SIZE
                                THEN [failed |-> TRUE, obj |-> o1, fno |-> 4]
                                ELSE fromStringFields([o1 EXCEPT !.hasPrivate = TRUE], f, 4)
                       [] o.type = P384 ->
                            LET d == b32d(f[4], ZT_IDENTITY_P384_COMPOUND_PRIVATE_KEY_SIZE)
                                img == d.bytes \o SubSeq(CompoundPrivate(o.priv), Len(d.bytes) + 1,
                                                         ZT_IDENTITY_P384_COMPOUND_PRIVATE_KEY_SIZE)
                                o1 == [o EXCEPT !.priv =
                                          [c25519 |-> SubSeq(img, 1, ZT_C25519_COMBINED_PRIVATE_KEY_SIZE),
                                           p384 |-> SubSeq(img, 1 + ZT_C25519_COMBINED_PRIVATE_KEY_SIZE,
                                                           ZT_IDENTITY_P384_COMPOUND_PRIVATE_KEY_SIZE)]]
                            IN  IF d.n # ZT_IDENTITY_P384_COMPOUND_PRIVATE_KEY_SIZE
                                THEN [failed |-> TRUE, obj |-> o1, fno |-> 4]
                                ELSE fromStringFields([o1 EXCEPT !.hasPrivate = TRUE], f, 4)
                       [] OTHER -> fromStringFields(o, f, 4)
                ELSE fromStringFields(o, f, 4)

\* fromString without the test of the number of fields.
fromStringNoFieldCount(o, str) ==
    LET o0 == [o EXCEPT !.fp = FingerprintZero, !.hasPrivate = FALSE]
    IN  IF str = NullPtr THEN fromStringFail(o0)
        ELSE IF ~(Len(str) < ZT_IDENTITY_STRING_BUFFER_LENGTH) THEN fromStringFail(o0)
        ELSE LET r == fromStringFields(o0, stok(str), 0)
             IN  IF r.failed THEN fromStringFail(r.obj)
                 ELSE LET o1 == computeHash(r.obj)
                      IN  IF (o1.type = P384) /\ (o1.address # AddressOf(o1.fp.hash))
                          THEN fromStringFail(o1)
                          ELSE [ret |-> TRUE, obj |-> o1]

\* Identity::fromString(str): the value returned and the object after.
fromString(o, str) ==
    LET o0 == [o EXCEPT !.fp = FingerprintZero, !.hasPrivate = FALSE]
    IN  IF str = NullPtr THEN fromStringFail(o0)
        ELSE IF ~(Len(str) < ZT_IDENTITY_STRING_BUFFER_LENGTH) THEN fromStringFail(o0)
        ELSE LET r == fromStringFields(o0, stok(str), 0)
             IN  IF r.failed THEN fromStringFail(r.obj)
                 ELSE IF r.fno < 3 THEN fromStringFail(r.obj)
                 ELSE LET o1 == computeHash(r.obj)
                      IN  IF (o1.type = P384) /\ (o1.address # AddressOf(o1.fp.hash))
                          THEN fromStringFail(o1)
                          ELSE [ret |-> TRUE, obj |-> o1]


---------------------------------------------------------------------------
(* Signing and key agreement.                                              *)

NoSignature == [ret |-> 0, alg |-> "none", sig |-> << >>]

\* case P384 of sign without the test of siglen.
signP384NoLengthTest(o, data, siglen) ==
    [ret |-> ZT_ECC384_SIGNATURE_SIZE, alg |-> "P384",
     sig |-> ECC384ECDSASign(o.priv.p384, SHA384(data \o CompoundPublic(o.pub)))]

\* case P384 of sign, which case C25519 falls into when its test fails.
signP384(o, data, siglen) ==
    IF siglen >= ZT_ECC384_SIGNATURE_SIZE
    THEN [ret |-> ZT_ECC384_SIGNATURE_SIZE, alg |-> "P384",
          sig |-> ECC384ECDSASign(o.priv.p384, SHA384(data \o CompoundPublic(o.pub)))]
    ELSE NoSignature

\* Identity::sign(data, len, sig, siglen): the value returned, the scheme
\* that wrote sig and the bytes written.
sign(o, data, siglen) ==
    IF o.hasPrivate
    THEN CASE o.type = C25519 ->
                IF siglen >= ZT_C25519_SIGNATURE_LEN
                THEN [ret |-> ZT_C25519_SIGNATURE_LEN, alg |-> "C25519",
                      sig |-> C25519Sign(o.priv.c25519, o.pub.c25519, data)]
                ELSE signP384(o, data, siglen)
           [] o.type = P384 -> signP384(o, data, siglen)
           [] OTHER -> NoSignature
    ELSE NoSignature

\* The C25519-only agreement with the caller's own public key for the
\* peer's.
agreeC25519OwnPublic(o, peer) ==
    LET rawkey == C25519Agree(o.priv.c25519, o.pub.c25519)
    IN  [ret |-> TRUE, key |-> SubSeq(SHA512(rawkey), 1, ZT_PEER_SECRET_KEY_LENGTH)]

\* The C25519-only agreement: SHA512 of the X25519 secret, 48 bytes of it.
agreeC25519(o, peer) ==
    LET rawkey == C25519Agree(o.priv.c25519, peer.pub.c25519)
    IN  [ret |-> TRUE, key |-> SubSeq(SHA512(rawkey), 1, ZT_PEER_SECRET_KEY_LENGTH)]

\* Identity::agree(id, key): the value returned and the key written.
agree(o, peer) ==
    IF o.hasPrivate
    THEN IF o.type = C25519
         THEN IF (peer.type = C25519) \/ (peer.type = P384)
              THEN agreeC25519(o, peer)
              ELSE [ret |-> FALSE, key |-> << >>]
         ELSE IF o.type = P384
         THEN IF peer.type = P384
              THEN LET rawkey == C25519Agree(o.priv.c25519, peer.pub.c25519)
                                   \o ECC384ECDH(peer.pub.p384, o.priv.p384)
                   IN  [ret |-> TRUE, key |-> SubSeq(SHA384(rawkey), 1, ZT_PEER_SECRET_KEY_LENGTH)]
              ELSE IF peer.type = C25519
              THEN agreeC25519(o, peer)
              ELSE [ret |-> FALSE, key |-> << >>]
         ELSE [ret |-> FALSE, key |-> << >>]
    ELSE [ret |-> FALSE, key |-> << >>]


---------------------------------------------------------------------------
(* The inputs of the calls.                                                *)

\* generate(t): the two types and a value outside the enum.
GenerateTypes == {C25519, P384, 2}

\* sign(data, len, sig, siglen)
Messages == {<<104, 105>>}

SigLens == {0, 95, 96, 97}

\* Identities a caller may hold or receive: the V0 and a V1 identity that
\* generate makes from the draws, and the V1 public block whose hash gives
\* a reserved address.
IdentityV0 == generate(NIL, C25519, <<139>>).obj

IdentityV1 == generate(NIL, P384, <<52, 52>>).obj

ReservedV1Public ==
    [nonce |-> FirstPassingNonceOfDraws[139, 52],
     c25519 |-> KeyPairC25519[139].pub,
     p384 |-> KeyPairP384[52].pub]

OtherC25519 == KeyPairC25519[52]

\* The layout of the binary form.
Image(address, type, public, privlen, private) ==
    address \o <<type>> \o public \o <<privlen>> \o private

\* The byte strings handed to unmarshal with the len given: well-formed
\* images, and images truncated, retagged or readdressed.
BinInputs ==
    LET v0 == Image(IdentityV0.address, C25519, IdentityV0.pub.c25519,
                    ZT_C25519_COMBINED_PRIVATE_KEY_SIZE, IdentityV0.priv.c25519)
        v1 == Image(IdentityV1.address, P384, CompoundPublic(IdentityV1.pub),
                    ZT_IDENTITY_P384_COMPOUND_PRIVATE_KEY_SIZE,
                    CompoundPrivate(IdentityV1.priv))
        v1pub(a, pl) == Image(a, P384, CompoundPublic(IdentityV1.pub), pl, << >>)
    IN  { [data |-> v0, len |-> 3],
          [data |-> v0, len |-> 70],
          [data |-> v0, len |-> 100],
          [data |-> Image(IdentityV0.address, C25519, IdentityV0.pub.c25519,
                          ZT_C25519_COMBINED_PRIVATE_KEY_SIZE, OtherC25519.priv),
           len |-> 135],
          [data |-> Image(IdentityV0.address, 2, IdentityV0.pub.c25519, 0, << >>),
           len |-> 71],
          [data |-> Image(IdentityV0.address, C25519, IdentityV0.pub.c25519, 1, <<7>>),
           len |-> 72],
          [data |-> Image(AddressZero, C25519, OtherC25519.pub, 0, << >>), len |-> 71],
          [data |-> Image(<<255>> \o SubSeq(IdentityV0.address, 2, ZT_ADDRESS_LENGTH),
                          C25519, OtherC25519.pub, 0, << >>),
           len |-> 71],
          [data |-> v1, len |-> 233],
          [data |-> v1, len |-> 200],
          [data |-> v1, len |-> 120],
          [data |-> v1pub(IdentityV0.address, 0), len |-> 121],
          [data |-> v1pub(IdentityV1.address, ZT_C25519_COMBINED_PRIVATE_KEY_SIZE), len |-> 121],
          [data |-> Image(AddressOf(SHA384(CompoundPublic(ReservedV1Public))), P384,
                          CompoundPublic(ReservedV1Public), 0, << >>),
           len |-> 121] }

\* Fields joined by colons.
RECURSIVE JoinFields(_)
JoinFields(fields) ==
    IF Len(fields) = 0 THEN << >>
    ELSE IF Len(fields) = 1 THEN fields[1]
    ELSE fields[1] \o <<Colon>> \o JoinFields(Tail(fields))

\* The strings handed to fromString.
TextInputs ==
    LET a0 == hex(IdentityV0.address)
        p0 == hex(IdentityV0.pub.c25519)
        a1 == hex(IdentityV1.address)
        p1 == b32e(CompoundPublic(IdentityV1.pub))
        s1 == b32e(CompoundPrivate(IdentityV1.priv))
    IN  { NullPtr,
          [i \in 1..ZT_IDENTITY_STRING_BUFFER_LENGTH |-> 97],
          JoinFields(<<a0, <<48>>>>),
          JoinFields(<<a0, <<48>>, p0>>) \o <<Colon>>,
          JoinFields(<<a0, <<48>>, p0, <<120>>>>),
          JoinFields(<<a0, <<48>>, p0, SubSeq(hex(IdentityV0.priv.c25519), 1, 126)>>),
          JoinFields(<<a0, <<48>>, SubSeq(p0, 1, 100)>>),
          JoinFields(<<a0, <<48, 49>>, p0>>),
          JoinFields(<<a0, <<50>>, p0>>),
          JoinFields(<<hex(AddressZero), <<48>>, hex(OtherC25519.pub)>>),
          JoinFields(<<hex(<<255>> \o SubSeq(IdentityV0.address, 2, ZT_ADDRESS_LENGTH)),
                       <<48>>, hex(OtherC25519.pub)>>),
          JoinFields(<<a1, <<49>>, SubSeq(p1, 1, 100)>>),
          JoinFields(<<a1, <<49>>, p1, s1>>),
          JoinFields(<<a0, <<49>>, p1, s1>>),
          JoinFields(<<a1, <<49>>, p1, SubSeq(s1, 1, 100)>>),
          JoinFields(<<hex(AddressOf(SHA384(CompoundPublic(ReservedV1Public)))), <<49>>,
                 b32e(CompoundPublic(ReservedV1Public))>>) }

\* The identities handed to agree: one of each type, holding both halves.
Peers ==
    { unmarshal(NIL, Image(<<1, 2, 3, 4, 5>>, C25519, OtherC25519.pub,
                           ZT_C25519_COMBINED_PRIVATE_KEY_SIZE, OtherC25519.priv), 135).obj,
      generate(NIL, P384, <<6081, 139>>).obj }

---------------------------------------------------------------------------
(* The state machine: one Identity object id, called by one thread.  last  *)
(* records the latest call (its name, the value returned and what it read  *)
(* and wrote besides the object); gen tells that id is as a successful     *)
(* generate left it; calls counts the calls that wrote the object.         *)

\* The number of calls that write the object in one history.
MaxCalls == 2

Init ==
    /\ id = NIL
    /\ gen = FALSE
    /\ last = [op |-> "none", ret |-> 0, arg |-> << >>]
    /\ calls = 0

Generate(t) ==
    /\ calls < MaxCalls
    /\ calls' = calls + 1
    /\ \E r \in {generate(id, t, d) :
                    d \in (CASE t = C25519 -> DrawsC25519 [] t = P384 -> DrawsP384
                             [] OTHER -> {<< >>})}
                 \cup (IF t = P384 THEN {generateNoMemory(id)} ELSE {}) :
          /\ id' = r.obj
          /\ gen' = r.ok
          /\ last' = [op |-> "generate", ret |-> r.ok, arg |-> [t |-> t]]

LocallyValidate ==
    /\ last' = [op |-> "locallyValidate", ret |-> locallyValidate(id), arg |-> << >>]
    /\ UNCHANGED <<id, gen, calls>>

Sign(data, siglen) ==
    LET r == sign(id, data, siglen)
    IN  /\ last' = [op |-> "sign", ret |-> r.ret,
                    arg |-> [data |-> data, siglen |-> siglen, alg |-> r.alg, sig |-> r.sig]]
        /\ UNCHANGED <<id, gen, calls>>

\* id.agree(peer, key), and peer.agree(id, key) for the other side.
Agree(peer) ==
    LET r == agree(id, peer)
    IN  /\ last' = [op |-> "agree", ret |-> r.ret,
                    arg |-> [peer |-> peer, key |-> r.key, back |-> agree(peer, id)]]
        /\ UNCHANGED <<id, gen, calls>>

Marshal(includePrivate) ==
    LET r == marshal(id, includePrivate)
    IN  /\ last' = [op |-> "marshal", ret |-> r.ret,
                    arg |-> [includePrivate |-> includePrivate, data |-> r.data,
                             self |-> id, gen |-> gen]]
        /\ UNCHANGED <<id, gen, calls>>

ToStringCall(includePrivate) ==
    /\ last' = [op |-> "toString", ret |-> toString(id, includePrivate),
                arg |-> [includePrivate |-> includePrivate, self |-> id, gen |-> gen]]
    /\ UNCHANGED <<id, gen, calls>>

\* unmarshal of bytes from outside.
Unmarshal(in) ==
    LET r == unmarshal(id, in.data, in.len)
    IN  /\ calls < MaxCalls
        /\ calls' = calls + 1
        /\ id' = r.obj
        /\ gen' = FALSE
        /\ last' = [op |-> "unmarshal", ret |-> r.ret,
                    arg |-> [data |-> in.data, len |-> in.len, image |-> << >>]]

\* unmarshal, by an Identity just constructed, of the bytes the marshal
\* just before wrote; the history goes on with that Identity.
UnmarshalImage ==
    /\ last.op = "marshal"
    /\ last.ret > 0
    /\ calls < MaxCalls
    /\ calls' = calls + 1
    /\ LET r == unmarshal(NIL, last.arg.data, last.ret)
       IN  /\ id' = r.obj
           /\ gen' = FALSE
           /\ last' = [op |-> "unmarshal", ret |-> r.ret,
                       arg |-> [data |-> last.arg.data, len |-> last.ret, image |-> <<last>>]]

\* fromString of a string from outside.
FromString(str) ==
    LET r == fromString(id, str)
    IN  /\ calls < MaxCalls
        /\ calls' = calls + 1
        /\ id' = r.obj
        /\ gen' = FALSE
        /\ last' = [op |-> "fromString", ret |-> r.ret,
                    arg |-> [str |-> str, image |-> << >>]]

\* fromString, by an Identity just constructed, of the string the
\* toString just before wrote; the history goes on with that Identity.
FromStringImage ==
    /\ last.op = "toString"
    /\ last.ret # NullPtr
    /\ calls < MaxCalls
    /\ calls' = calls + 1
    /\ LET r == fromString(NIL, last.ret)
       IN  /\ id' = r.obj
           /\ gen' = FALSE
           /\ last' = [op |-> "fromString", ret |-> r.ret,
                       arg |-> [str |-> last.ret, image |-> <<last>>]]

Next ==
    \/ \E t \in GenerateTypes : Generate(t)
    \/ LocallyValidate
    \/ \E data \in Messages, siglen \in SigLens : Sign(data, siglen)
    \/ \E peer \in Peers : Agree(peer)
    \/ \E b \in BOOLEAN : Marshal(b)
    \/ \E b \in BOOLEAN : ToStringCall(b)
    \/ \E in \in BinInputs : Unmarshal(in)
    \/ UnmarshalImage
    \/ \E str \in TextInputs : FromString(str)
    \/ FromStringImage

Spec == Init /\ [][Next]_vars

\* The histories with one kind of reading call, or none: the calls that
\* write the object are all there, so the object goes through the same
\* states as under Next but for those that parsing an image gives.
NextWrites ==
    \/ \E t \in GenerateTypes : Generate(t)
    \/ \E in \in BinInputs : Unmarshal(in)
    \/ \E str \in TextInputs : FromString(str)

SpecWrites == Init /\ [][NextWrites]_vars

NextValidate ==
    \/ \E t \in GenerateTypes : Generate(t)
    \/ \E in \in BinInputs : Unmarshal(in)
    \/ \E str \in TextInputs : FromString(str)
    \/ LocallyValidate

SpecValidate == Init /\ [][NextValidate]_vars

NextSign ==
    \/ \E t \in GenerateTypes : Generate(t)
    \/ \E in \in BinInputs : Unmarshal(in)
    \/ \E str \in TextInputs : FromString(str)
    \/ \E data \in Messages, siglen \in SigLens : Sign(data, siglen)

SpecSign == Init /\ [][NextSign]_vars

NextAgree ==
    \/ \E t \in GenerateTypes : Generate(t)
    \/ \E in \in BinInputs : Unmarshal(in)
    \/ \E str \in TextInputs : FromString(str)
    \/ \E peer \in Peers : Agree(peer)

SpecAgree == Init /\ [][NextAgree]_vars

---------------------------------------------------------------------------
(* generate(P384) step by step.  The same variables hold one call in       *)
(* progress: last.arg has the position in the code (pc), the object the    *)
(* call began with (from) and the draws made so far, the C25519 and the    *)
(* P-384 key pairs in the order they were generated.                       *)

\* The objects generate(P384) is called on.
GenerateP384From == {NIL, IdentityV0}

InitGenerateP384 ==
    /\ id \in GenerateP384From
    /\ gen = FALSE
    /\ last = [op |-> "none", ret |-> 0, arg |-> << >>]
    /\ calls = 0

\* The position of the call: before it, at the head of the outer for(;;),
\* at the head of the inner for(;;), after the inner loop, or returned.
PC == IF last.op = "generate" THEN last.arg.pc ELSE "call"

GenerateP384At(pc, ret, draws) ==
    [op |-> "generate", ret |-> ret,
     arg |-> [t |-> P384, pc |-> pc,
              from |-> IF last.op = "generate" THEN last.arg.from ELSE id,
              draws |-> draws]]

\* _type = t; _hasPrivate = true; and the malloc of the scratch memory,
\* which gives the memory or a null pointer: return false.
GenerateP384Enter ==
    /\ PC = "call"
    /\ id' = [id EXCEPT !.type = P384, !.hasPrivate = TRUE]
    /\ calls' = calls + 1
    /\ gen' = FALSE
    /\ \/ last' = GenerateP384At("outer", FALSE, << >>)
       \/ last' = GenerateP384At("done", FALSE, << >>)

\* The head of the outer loop: _pub.nonce = 0 and the two key pairs.
GenerateP384Outer ==
    /\ PC = "outer"
    /\ Len(last.arg.draws) + 2 <= MaxDraws
    /\ \E k \in Seeds, p \in Seeds :
          /\ id' = [id EXCEPT !.pub = [nonce |-> 0, c25519 |-> KeyPairC25519[k].pub,
                                       p384 |-> KeyPairP384[p].pub],
                              !.priv = [c25519 |-> KeyPairC25519[k].priv,
                                        p384 |-> KeyPairP384[p].priv]]
          /\ last' = GenerateP384At("inner", FALSE, last.arg.draws \o <<k, p>>)
    /\ UNCHANGED <<gen, calls>>

\* if (identityV1ProofOfWorkCriteria(&_pub,sizeof(_pub),b)) break;
GenerateP384Pass ==
    /\ PC = "inner"
    /\ identityV1ProofOfWorkCriteria(CompoundPublic(id.pub))
    /\ last' = GenerateP384At("tail", FALSE, last.arg.draws)
    /\ UNCHANGED <<id, gen, calls>>

\* if (++_pub.nonce == 0) ECC384GenerateKey(_pub.p384,_priv.p384); without
\* the generation of the key pair on a wrap.
GenerateP384FailKeepsP384 ==
    /\ PC = "inner"
    /\ ~identityV1ProofOfWorkCriteria(CompoundPublic(id.pub))
    /\ id' = [id EXCEPT !.pub.nonce = (id.pub.nonce + 1) % 256]
    /\ last' = GenerateP384At("inner", FALSE, last.arg.draws)
    /\ UNCHANGED <<gen, calls>>

\* if (++_pub.nonce == 0) ECC384GenerateKey(_pub.p384,_priv.p384);
GenerateP384Fail ==
    /\ PC = "inner"
    /\ ~identityV1ProofOfWorkCriteria(CompoundPublic(id.pub))
    /\ LET nonce == (id.pub.nonce + 1) % 256
       IN  IF nonce = 0
           THEN /\ Len(last.arg.draws) < MaxDraws
                /\ \E p \in Seeds :
                      /\ id' = [id EXCEPT !.pub.nonce = nonce,
                                           !.pub.p384 = KeyPairP384[p].pub,
                                           !.priv.p384 = KeyPairP384[p].priv]
                      /\ last' = GenerateP384At("inner", FALSE, last.arg.draws \o <<p>>)
           ELSE /\ id' = [id EXCEPT !.pub.nonce = nonce]
                /\ last' = GenerateP384At("inner", FALSE, last.arg.draws)
    /\ UNCHANGED <<gen, calls>>

\* _computeHash(); _address.setTo(_fp.hash()); if (!_address.isReserved())
\* break; and then free(b) and return true.
GenerateP384Tail ==
    /\ PC = "tail"
    /\ LET o1 == computeHash(id)
           o2 == [o1 EXCEPT !.address = AddressOf(o1.fp.hash)]
       IN  /\ id' = o2
           /\ IF ~isReserved(o2.address)
              THEN /\ last' = GenerateP384At("done", TRUE, last.arg.draws)
                   /\ gen' = TRUE
              ELSE /\ last' = GenerateP384At("outer", FALSE, last.arg.draws)
                   /\ gen' = gen
    /\ UNCHANGED calls

NextGenerateP384 ==
    \/ GenerateP384Enter
    \/ GenerateP384Outer
    \/ GenerateP384Pass
    \/ GenerateP384Fail
    \/ GenerateP384Tail

SpecGenerateP384 == InitGenerateP384 /\ [][NextGenerateP384]_vars

---------------------------------------------------------------------------
(* The properties.  They speak of the call in last and of the object it    *)
(* left.                                                                   *)

\* The public and the private block of an identity of type V0 or V1.
PublicBlock(o) == IF o.type = P384 THEN CompoundPublic(o.pub) ELSE o.pub.c25519

PrivateBlock(o) == IF o.type = P384 THEN CompoundPrivate(o.priv) ELSE o.priv.c25519

PublicBlockSize(t) ==
    IF t = P384 THEN ZT_IDENTITY_P384_COMPOUND_PUBLIC_KEY_SIZE
    ELSE ZT_C25519_COMBINED_PUBLIC_KEY_SIZE

PrivateBlockSize(t) ==
    IF t = P384 THEN ZT_IDENTITY_P384_COMPOUND_PRIVATE_KEY_SIZE
    ELSE ZT_C25519_COMBINED_PRIVATE_KEY_SIZE

\* The call in last parsed what the call before it wrote for an identity
\* that a successful generate had made.
ParsedImageOfGenerated(op) ==
    /\ last.op = op
    /\ last.arg.image # << >>
    /\ last.arg.image[1].arg.gen

\* C1: binary round trip.  For an identity I made by a successful generate
\* and either b, unmarshal of the bytes marshal(I, b) wrote returns the
\* length marshal returned and yields I's type, address, public block and
\* fingerprint; the result holds a private half exactly when b is true and
\* I holds one, and then I's private block.
C1_BinaryRoundTrip ==
    ParsedImageOfGenerated("unmarshal") =>
        LET m == last.arg.image[1]
            I == m.arg.self
        IN  /\ last.ret > 0
            /\ last.ret = m.ret
            /\ id.type = I.type
            /\ id.address = I.address
            /\ PublicBlock(id) = PublicBlock(I)
            /\ id.fp = I.fp
            /\ id.hasPrivate = (m.arg.includePrivate /\ I.hasPrivate)
            /\ id.hasPrivate => (PrivateBlock(id) = PrivateBlock(I))

\* C2: text round trip.  For an identity I made by a successful generate,
\* fromString of the string toString(includePrivate) wrote returns true and
\* yields I's type, address, public block and fingerprint; with
\* includePrivate the string has 4 fields and the result holds I's private
\* block, without it 3 fields and the result holds no private half.
C2_TextRoundTrip ==
    ParsedImageOfGenerated("fromString") =>
        LET m == last.arg.image[1]
            I == m.arg.self
            fields == Len(stok(last.arg.str))
        IN  /\ last.ret = TRUE
            /\ id.type = I.type
            /\ id.address = I.address
            /\ PublicBlock(id) = PublicBlock(I)
            /\ id.fp = I.fp
            /\ IF m.arg.includePrivate
               THEN fields = 4 /\ id.hasPrivate /\ PrivateBlock(id) = PrivateBlock(I)
               ELSE fields = 3 /\ ~id.hasPrivate

\* The call in last is a parse that failed.
ParseFailed ==
    \/ last.op = "fromString" /\ last.ret = FALSE
    \/ last.op = "unmarshal" /\ last.ret < 0

ParseSucceeded ==
    \/ last.op = "fromString" /\ last.ret = TRUE
    \/ last.op = "unmarshal" /\ last.ret > 0

\* C3: a parse that fails leaves the empty state: the address zero, no
\* private half, the fingerprint all zero.
C3_FailedParseLeavesEmpty ==
    ParseFailed =>
        /\ id.address = AddressZero
        /\ ~id.hasPrivate
        /\ id.fp = FingerprintZero

\* The address an input encodes: the first 5 bytes of the binary form, the
\* first field of the text form.
EncodedAddressReserved ==
    \/ /\ last.op = "unmarshal"
       /\ last.arg.len >= ZT_ADDRESS_LENGTH + 1
       /\ isReserved(AddressOf(last.arg.data))
    \/ /\ last.op = "fromString"
       /\ last.arg.str # NullPtr
       /\ Len(stok(last.arg.str)) >= 1
       /\ isReserved(AddressOfU64(hexStrToU64(stok(last.arg.str)[1])))

\* C4: both parsers reject an input whose encoded address is zero or has
\* the leading byte 0xFF, so a successful parse leaves no reserved address.
C4_ParsersRejectReserved ==
    /\ EncodedAddressReserved => ParseFailed
    /\ ParseSucceeded => ~isReserved(id.address)

\* What the claim calls malformed in the binary form.
MalformedBinary(data, len) ==
    \/ len < ZT_ADDRESS_LENGTH + 1
    \/ LET t == data[ZT_ADDRESS_LENGTH + 1]
           head == ZT_ADDRESS_LENGTH + 1 + PublicBlockSize(t) + 1
       IN  \/ t \notin {C25519, P384}
           \/ len < head
           \/ data[head] \notin {0, PrivateBlockSize(t)}
           \/ len < head + data[head]
           \/ /\ t = P384
              /\ AddressOf(data) #
                    AddressOf(SHA384(SubSeq(data, ZT_ADDRESS_LENGTH + 2, head - 1)))

\* The number of bytes a field of the text form decodes to.
DecodedSize(t, field, size) ==
    IF t = P384 THEN b32d(field, size).n ELSE Len(unhex(field, size))

\* What the claim calls malformed in the text form; a private field counts
\* when it is longer than minPrivate characters.
MalformedText(str, minPrivate) ==
    LET f == stok(str)
    IN  \/ Len(f) < 3
        \/ f[2] \notin {<<48>>, <<49>>}
        \/ LET t == f[2][1] - 48
           IN  \/ DecodedSize(t, f[3], PublicBlockSize(t)) # PublicBlockSize(t)
               \/ /\ Len(f) >= 4
                  /\ Len(f[4]) > minPrivate
                  /\ DecodedSize(t, f[4], PrivateBlockSize(t)) # PrivateBlockSize(t)
               \/ /\ t = P384
                  /\ b32d(f[3], PublicBlockSize(t)).n = PublicBlockSize(t)
                  /\ AddressOfU64(hexStrToU64(f[1])) #
                        AddressOf(SHA384(b32d(f[3], PublicBlockSize(t)).bytes))

ParserRejectsMalformed(minPrivate) ==
    /\ (last.op = "unmarshal" /\ MalformedBinary(last.arg.data, last.arg.len))
          => last.ret < 0
    /\ (last.op = "fromString" /\ last.arg.str # NullPtr
          /\ MalformedText(last.arg.str, minPrivate))
          => last.ret = FALSE

\* C5 as the specification states it: malformed input is always rejected,
\* a private field of any length that does not decode to the block size
\* included.
C5_MalformedRejected == ParserRejectsMalformed(0)

\* C5, amended: malformed input is rejected by both parsers: an unknown
\* type, an input shorter than its layout, a priv_len that is neither 0 nor
\* the block size, a V1 address that is not the head of SHA-384 of the
\* public block, fewer than three fields, a public field of the wrong
\* decoded size, and a private field of more than one character that does
\* not decode to the block size.
C5_MalformedRejectedButOneCharPrivate == ParserRejectsMalformed(1)

\* fromString has refused a private field of more than one character that
\* decodes short, and unmarshal a priv_len that is neither 0 nor the size.
C5_Witness ==
    /\ last.op = "fromString"
    /\ last.ret = FALSE
    /\ last.arg.str # NullPtr
    /\ LET f == stok(last.arg.str)
       IN  /\ Len(f) = 4
           /\ f[2] = <<48>>
           /\ Len(unhex(f[3], ZT_C25519_COMBINED_PUBLIC_KEY_SIZE)) = ZT_C25519_COMBINED_PUBLIC_KEY_SIZE
           /\ Len(f[4]) > 1
           /\ Len(unhex(f[4], ZT_C25519_COMBINED_PRIVATE_KEY_SIZE)) < ZT_C25519_COMBINED_PRIVATE_KEY_SIZE

ValidAsSpecified(o) ==
    /\ o.address # AddressZero
    /\ o.address[1] # 255
    /\ \/ /\ o.type = C25519
          /\ LET digest == identityV0ProofOfWorkFrankenhash(o.pub.c25519)
             IN  o.address = SubSeq(digest, 60, 64) /\ digest[1] < 17
       \/ /\ o.type = P384
          /\ o.address = SubSeq(SHA384(CompoundPublic(o.pub)), 1, 5)
          /\ identityV1ProofOfWorkCriteria(CompoundPublic(o.pub))

\* C7: in every state that generate, fromString and unmarshal calls reach,
\* locallyValidate returns true exactly when the address is not reserved
\* and the address and the proof of work fit the public block as it is
\* now, the V1 fingerprint recomputed; false for any other type.
C7_ValidateRecomputes ==
    (last.op = "locallyValidate") => (last.ret = ValidAsSpecified(id))

\* C8: generate with a type that is neither V0 nor V1 returns false and
\* leaves the object as it was: the type, the has-private flag, the
\* address, the key blocks and the fingerprint.
C8_GenerateUnknownTypeLeavesState ==
    [][(last'.op = "generate" /\ last'.arg.t \notin {C25519, P384})
            => (last'.ret = FALSE /\ id' = id)]_vars

\* C9: sign, on an identity of type V0 or V1, returns 0 when the identity
\* holds no private half or the buffer is shorter than 96, and otherwise
\* returns 96 with the signature of the identity's own type; no V0
\* identity writes an ECDSA P-384 signature and no V1 identity a V0 one,
\* whatever the buffer length.
C9_SignDispatchesOnType ==
    (last.op = "sign" /\ id.type \in {C25519, P384}) =>
        /\ (~id.hasPrivate \/ last.arg.siglen < 96) =>
              (last.ret = 0 /\ last.arg.alg = "none" /\ last.arg.sig = << >>)
        /\ (id.hasPrivate /\ last.arg.siglen >= 96) =>
              (last.ret = 96 /\ Len(last.arg.sig) = 96)
        /\ (id.type = C25519) => last.arg.alg \in {"none", "C25519"}
        /\ (id.type = P384) => last.arg.alg \in {"none", "P384"}
        /\ (last.arg.alg = "C25519") =>
              last.arg.sig = C25519Sign(id.priv.c25519, id.pub.c25519, last.arg.data)
        /\ (last.arg.alg = "P384") =>
              last.arg.sig = ECC384ECDSASign(id.priv.p384,
                                SHA384(last.arg.data \o CompoundPublic(id.pub)))

\* A V0 identity holding its private half was given a buffer of 95 bytes
\* and wrote nothing.
C9_Witness ==
    /\ last.op = "sign"
    /\ id.type = C25519
    /\ id.hasPrivate
    /\ last.arg.siglen = 95
    /\ last.ret = 0

\* The private half is the one the public half was made from.
Paired(o) ==
    /\ C25519PublicOf(o.priv.c25519) = o.pub.c25519
    /\ (o.type = P384) => (ECC384PublicOf(o.priv.p384) = o.pub.p384)

\* The key the claim gives for A.agree(B).
KeyAsSpecified(A, B) ==
    IF A.type = P384 /\ B.type = P384
    THEN SHA384(C25519Agree(A.priv.c25519, B.pub.c25519)
                  \o ECC384ECDH(B.pub.p384, A.priv.p384))
    ELSE SubSeq(SHA512(C25519Agree(A.priv.c25519, B.pub.c25519)), 1, 48)

AgreementSymmetric(A, B) ==
    /\ last.ret = TRUE
    /\ last.arg.back.ret = TRUE
    /\ last.arg.key = last.arg.back.key
    /\ Len(last.arg.key) = 48
    /\ last.arg.key = KeyAsSpecified(A, B)
    /\ last.arg.back.key = KeyAsSpecified(B, A)

\* C10 as the specification states it: any two identities of types V0 or
\* V1 that hold private halves agree on one 48-byte key, whichever calls.
C10_AgreementSymmetry ==
    /\ (last.op = "agree" /\ id.hasPrivate /\ id.type \in {C25519, P384})
          => AgreementSymmetric(id, last.arg.peer)
    /\ (last.op = "agree" /\ ~id.hasPrivate) => (last.ret = FALSE)

\* C10, amended: two identities of types V0 or V1 whose private halves are
\* the ones their public halves were made from agree on one 48-byte key,
\* whichever calls: SHA-384 of the X25519 secret followed by the P-384
\* secret when both are V1, else SHA-512 of the X25519 secret cut to 48
\* bytes; agree returns false when the caller holds no private half.
C10_AgreementSymmetryOfPaired ==
    /\ (last.op = "agree" /\ id.hasPrivate /\ id.type \in {C25519, P384} /\ Paired(id))
          => AgreementSymmetric(id, last.arg.peer)
    /\ (last.op = "agree" /\ ~id.hasPrivate) => (last.ret = FALSE)

\* A V1 identity and a V0 peer, both holding their halves, have agreed.
C10_Witness ==
    /\ last.op = "agree"
    /\ last.ret = TRUE
    /\ id.hasPrivate
    /\ Paired(id)
    /\ id.type = P384
    /\ last.arg.peer.type = C25519
    /\ last.arg.key = last.arg.back.key


\* Each start of the outer loop of generate(P384) sets the nonce to 0 and
\* generates a C25519 and a P-384 key pair.
GenerateP384OuterStarts ==
    PC = "outer" =>
        \E k \in Seeds, p \in Seeds :
            /\ last'.arg.draws = last.arg.draws \o <<k, p>>
            /\ id'.pub = [nonce |-> 0, c25519 |-> KeyPairC25519[k].pub,
                          p384 |-> KeyPairP384[p].pub]
            /\ id'.priv = [c25519 |-> KeyPairC25519[k].priv,
                           p384 |-> KeyPairP384[p].priv]

\* Each failed test adds 1 to the nonce modulo 256, keeps the C25519 key
\* pair, and generates a P-384 key pair exactly when the nonce is 0 again.
GenerateP384FailedTest ==
    (PC = "inner" /\ ~identityV1ProofOfWorkCriteria(CompoundPublic(id.pub))) =>
        /\ id'.pub.nonce = (id.pub.nonce + 1) % 256
        /\ id'.pub.c25519 = id.pub.c25519
        /\ id'.priv.c25519 = id.priv.c25519
        /\ IF id'.pub.nonce = 0
           THEN \E p \in Seeds :
                    /\ last'.arg.draws = last.arg.draws \o <<p>>
                    /\ id'.pub.p384 = KeyPairP384[p].pub
                    /\ id'.priv.p384 = KeyPairP384[p].priv
           ELSE /\ last'.arg.draws = last.arg.draws
                /\ id'.pub.p384 = id.pub.p384
                /\ id'.priv.p384 = id.priv.p384

\* The outer loop is entered again only from a public block that passed
\* the test and gave a reserved address.
GenerateP384Reentered ==
    (PC' = "outer" /\ PC # "call") =>
        /\ PC = "tail"
        /\ identityV1ProofOfWorkCriteria(CompoundPublic(id.pub))
        /\ id'.address = AddressOf(SHA384(CompoundPublic(id.pub)))
        /\ isReserved(id'.address)

\* C11: during generate(V1), each start of the outer loop sets the nonce to
\* 0 and generates fresh C25519 and P-384 key pairs; each failed pow_v1
\* test increments the nonce by 1 modulo 256, leaves the C25519 key pair
\* unchanged and regenerates the P-384 key pair exactly when the nonce
\* wraps to 0; the outer loop is re-entered only when a passing public
\* block yields a reserved address; and generate returns only with a
\* public block that passed pow_v1 with the nonce stored in it.
C11_GenerateP384Loops ==
    [][/\ GenerateP384OuterStarts
       /\ GenerateP384FailedTest
       /\ GenerateP384Reentered
       /\ PC' = "done" => identityV1ProofOfWorkCriteria(CompoundPublic(id'.pub))]_vars

\* C11 as the code has it: the same, generate returning true only with a
\* public block that passed; it returns false, the loops never entered,
\* when the scratch memory is not to be had.
C11_GenerateP384LoopsWithMemory ==
    [][/\ GenerateP384OuterStarts
       /\ GenerateP384FailedTest
       /\ GenerateP384Reentered
       /\ (PC' = "done" /\ last'.ret = TRUE) =>
              identityV1ProofOfWorkCriteria(CompoundPublic(id'.pub))]_vars

\* generate(V1) has returned true from its second round of the outer loop,
\* after failed tests in it.
C11_Witness ==
    /\ PC = "done"
    /\ last.ret = TRUE
    /\ Len(last.arg.draws) = 4
    /\ last.arg.draws[3] # last.arg.draws[1]
    /\ id.pub.c25519 = KeyPairC25519[last.arg.draws[3]].pub
    /\ id.pub.nonce > 0

\* The steps come to what generate(P384) does in one piece.
GenerateP384StepsAgree ==
    PC = "done" =>
        LET r == IF last.ret = TRUE
                 THEN generate(last.arg.from, P384, last.arg.draws)
                 ELSE generateNoMemory(last.arg.from)
        IN  r.done /\ r.ok = last.ret /\ r.used = Len(last.arg.draws) /\ r.obj = id

\* The input of the parse in last carries a private block: a priv_len
\* byte that is not 0, a fourth field in the text form.
InputCarriesPrivate ==
    \/ /\ last.op = "unmarshal"
       /\ LET t == last.arg.data[ZT_ADDRESS_LENGTH + 1]
          IN  last.arg.data[ZT_ADDRESS_LENGTH + 1 + PublicBlockSize(t) + 1] # 0
    \/ /\ last.op = "fromString"
       /\ Len(stok(last.arg.str)) >= 4

=============================================================================
